---- MODULE Spec2Model ----
(***************************************************************************)
(* launch-space: the keyboard-backlight game of src/bin/launch-space.rs.    *)
(*                                                                         *)
(* State of the event-loop closure (player, entities, explosions, leds,     *)
(* the two Instants) and one action per winit event handler: the five keys  *)
(* of KeyboardInput, MainEventsCleared (the simulation tick) and            *)
(* RedrawRequested (render + hardware sync).                                *)
(*                                                                         *)
(* Numbers.  The f64 coordinates are kept in fixed point: a position is an  *)
(* integer count of 1/Unit of a cell, a time an integer count of 1/Second   *)
(* of a second.  With the two speeds of the program (8.0 and -2.0 cells     *)
(* per second) every product dx * dt is a whole number of such steps, so    *)
(* update() and floor() are exact.                                          *)
(* Option<T> is a sequence of length at most one: None = <<>>,              *)
(* Some(v) = <<v>>.                                                         *)
(***************************************************************************)
EXTENDS Integers, Sequences, FiniteSets, TLC

\* ---------------------------------------------------------------- bounds
\* Each specification below runs the same handlers under its own bounds: the
\* keyboard events handled in a run, the Space presses among them, and the
\* reading at which the monotonic clock stops being advanced (in 1/Second s).
\* Spec: three shots and the time an explosion takes to fade.
MaxKeys == 3
MaxShots == 3
MaxTime == 6
\* SpecSync: a few frames with an LED whose writes can fail.
SyncKeys == 2
SyncShots == 1
SyncTime == 4
\* SpecMove: the player walks as far as the nearest absent cell.
MoveKeys == 6
MoveShots == 1
MoveTime == 1
\* SpecShots: enough shots in one frame for two collisions in one row.
ShotKeys == 6
ShotShots == 4
ShotTime == 1
\* SpecMark: the player walks to a lit cell of the banner, with shots on the
\* way.
MarkKeys == 5
MarkShots == 3
MarkTime == 1
\* SpecEdge: one shot and the time it takes to leave the grid.
EdgeKeys == 1
EdgeShots == 1
EdgeTime == 17
\* SpecFade: two shots, the time their explosion lives and the first spawn.
FadeKeys == 2
FadeShots == 2
FadeTime == 21
\* SpecSpawn: the time of two spawns.
SpawnKeys == 1
SpawnShots == 1
SpawnTime == 42
\* SpecTable: the first frames on a grid built from either layout table.
TableKeys == 2
TableShots == 1
TableTime == 2

\* ------------------------------------------------------- fixed-point units
Unit == 5
Second == 10
\* The elapsed times Instant::now() is seen to advance by between two ticks.
DtSet == {1, 19}
\* The handler reads the clock a second time, in last_spawn_time.elapsed():
\* how far that reading can be past the handler's first one.
LateSet == {0, 1}

\* ------------------------------------------------------------ the tables
ni == 255

indices ==
  << <<69, 70, 71, 72, 73, 74, 75, 76, 77, 78, 79, 80, 81, 82, 83>>,
     <<68, 67, 66, 65, 64, 63, 62, 61, 60, 59, 58, 57, 56, 55, 54>>,
     <<39, 40, 41, 42, 43, 44, 45, 46, 47, 48, 49, 50, 51, 52, 53>>,
     <<38, 37, 36, 35, 34, 33, 32, 31, 30, 29, 28, 27, 26, ni, 25>>,
     <<12, 11, 10,  9,  8,  7,  6,  5,  4,  3,  2,  1,  0, ni, ni>>,
     <<13, 14, 15, 16, 17, ni, 18, 19, 20, 21, ni, 22, 23, 24, ni>> >>

banner ==
  << <<" ","#","#","#","#","#","#"," ","#","#","#","#"," "," "," ">>,
     <<" "," "," "," ","#"," "," "," ","#"," "," "," "," "," "," ">>,
     <<" "," "," "," ","#"," "," "," ","#","#","#","#"," "," "," ">>,
     <<" ","#"," "," ","#"," "," "," "," "," "," ","#"," "," "," ">>,
     <<" ","#","#","#"," "," "," ","#","#","#","#"," "," "," "," ">>,
     <<" "," "," "," "," "," "," "," "," "," "," "," "," "," "," ">> >>

\* The table with one entry mistyped: the LED index 0 of row 4 a second time,
\* in the place of the ni after it.
doubled == [indices EXCEPT ![5][14] = 0]

\* The layout tables construction is run on.
Tables == {indices, doubled}

\* Option<T>
None == <<>>
Some(v) == <<v>>

\* ------------------------------------------------------------- the colors
Black  == <<0, 0, 0>>
White  == <<255, 255, 255>>
Red    == <<255, 0, 0>>
Orange == <<255, 127, 0>>
Yellow == <<255, 255, 0>>
Green  == <<0, 255, 0>>
Blue   == <<0, 0, 255>>

\* The LEDs whose led_set_color call can return Err in this model.
FlakyLeds == {41}

VARIABLES
  leds,              \* Vec<Vec<Option<Led>>>, leds[row + 1][col + 1]
  max_col,           \* usize
  player,            \* (usize, usize) = <<column, row>>
  entities,          \* Vec<Entity>
  explosions,        \* Vec<(i32, i32, f64)>
  last_spawn_time,   \* Instant
  last_update_time,  \* Instant
  pc,                \* what the event loop delivers next: "events" | "redraw"
  new_player,        \* the local new_player of the last KeyboardInput handler
  keys,              \* keyboard events handled so far
  shots,             \* Space presses handled so far
  writes,            \* the led_set_color calls of the last handler, in order
  failed,            \* the LED indices whose write failed in the last sync pass
  hw                 \* per LED index, the color the hardware last accepted

vars == <<leds, max_col, player, entities, explosions, last_spawn_time,
          last_update_time, pc, new_player, keys, shots, writes, failed, hw>>

\* -------------------------------------------------------- grid construction
\* A construction without the test for ni: an Led for every entry.
RowLedsAll(indices_row) ==
  [c \in 1..Len(indices_row) |->
     Some([i |-> indices_row[c], color |-> Black, sync_color |-> None])]

RowLeds(indices_row) ==
  [c \in 1..Len(indices_row) |->
     IF indices_row[c] = ni
       THEN None
       ELSE Some([i |-> indices_row[c], color |-> Black, sync_color |-> None])]

BuildLeds == [r \in 1..Len(indices) |-> RowLeds(indices[r])]

RECURSIVE MaxLen(_, _)
MaxLen(rows, k) ==
  IF k > Len(rows) THEN 0
  ELSE LET rest == MaxLen(rows, k + 1)
       IN  IF Len(rows[k]) > rest THEN Len(rows[k]) ELSE rest

BuildMaxCol == MaxLen(indices, 1)

\* leds.get(row).and_then(|r| r.get(col)): the Option<Led> at a position, None
\* when the position is outside the Vec (a negative i32 cast to usize is huge).
Get(ls, row, col) ==
  IF row >= 0 /\ row < Len(ls)
    THEN IF col >= 0 /\ col < Len(ls[row + 1]) THEN ls[row + 1][col + 1] ELSE None
    ELSE None

IsPresent(ls, row, col) == Get(ls, row, col) # None

\* ------------------------------------------------------------------ Entity
pixel_position(e) == <<e.x \div Unit, e.y \div Unit>>

update(e, dt) ==
  [e EXCEPT !.x = @ + (e.dx * dt * Unit) \div Second,
            !.y = @ + (e.dy * dt * Unit) \div Second]

\* --------------------------------------------------------------------- Led
set_color(led, c) == [led EXCEPT !.color = c]

\* sync without its comparison: the write is issued every time.
sync_always(led, ok) ==
  [led  |-> [led EXCEPT !.sync_color = Some(led.color)],
   call |-> <<[i |-> led.i, color |-> led.color, ok |-> ok]>>]

\* sync without line 54: the color sent is not remembered.
sync_forgets(led, ok) ==
  IF led.sync_color # Some(led.color)
    THEN [led  |-> led,
          call |-> <<[i |-> led.i, color |-> led.color, ok |-> ok]>>]
    ELSE [led |-> led, call |-> <<>>]

\* Led::sync with the Result of its led_set_color call; call is the list of
\* hardware calls it made.
sync(led, ok) ==
  IF led.sync_color # Some(led.color)
    THEN [led  |-> [led EXCEPT !.sync_color = Some(led.color)],
          call |-> <<[i |-> led.i, color |-> led.color, ok |-> ok]>>]
    ELSE [led |-> led, call |-> <<>>]

\* set_color on the LED at (row, col), if there is one.
Paint(ls, row, col, c) ==
  IF IsPresent(ls, row, col)
    THEN [ls EXCEPT ![row + 1][col + 1] = Some(set_color(@[1], c))]
    ELSE ls

Init ==
  /\ leds = BuildLeds
  /\ max_col = BuildMaxCol
  /\ player = <<2, 2>>
  /\ entities = <<>>
  /\ explosions = <<>>
  /\ last_spawn_time = 0
  /\ last_update_time = 0
  /\ pc = "events"
  /\ new_player = <<2, 2>>
  /\ keys = 0
  /\ shots = 0
  /\ writes = <<>>
  /\ failed = {}
  /\ hw = [i \in {indices[r][c] : r \in 1..6, c \in 1..15} \ {ni} |-> None]

\* Lines 141-179 for a layout table given in the place of indices: the loop
\* over its rows, then the initial values of the closure's state.
Construct(table) == [r \in 1..Len(table) |-> RowLeds(table[r])]

InitWith(table) ==
  /\ leds = Construct(table)
  /\ max_col = MaxLen(table, 1)
  /\ player = <<2, 2>>
  /\ entities = <<>>
  /\ explosions = <<>>
  /\ last_spawn_time = 0
  /\ last_update_time = 0
  /\ pc = "events"
  /\ new_player = <<2, 2>>
  /\ keys = 0
  /\ shots = 0
  /\ writes = <<>>
  /\ failed = {}
  /\ hw = [i \in {table[r][c] : r \in 1..6, c \in 1..15} \ {ni} |-> None]

\* ----------------------------------------------------------- KeyboardInput
saturating_sub(v, n) == IF v < n THEN 0 ELSE v - n
saturating_add(v, n) == v + n

\* new_player as the match on the keycode leaves it.
Candidate(p, keycode) ==
  CASE keycode = "Up"    -> <<p[1], saturating_sub(p[2], 1)>>
    [] keycode = "Down"  -> <<p[1], saturating_add(p[2], 1)>>
    [] keycode = "Left"  -> <<saturating_sub(p[1], 1), p[2]>>
    [] keycode = "Right" -> <<saturating_add(p[1], 1), p[2]>>
    [] OTHER             -> p

\* A shot that starts on the cell to the right of the player.
ShotAhead(p) ==
  [x |-> (p[1] + 1) * Unit, y |-> p[2] * Unit, dx |-> 8, dy |-> 0,
   r |-> 255, g |-> 0, b |-> 0]

\* The entity a Space press pushes.
Shot(p) ==
  [x |-> p[1] * Unit, y |-> p[2] * Unit, dx |-> 8, dy |-> 0,
   r |-> 255, g |-> 0, b |-> 0]

\* The handler without its three if-lets: the candidate is always taken.
AcceptAny(ls, p, np) == np

\* A handler that steps over an absent cell to the cell behind it.
AcceptSkip(ls, p, np) ==
  LET far == <<np[1] + (np[1] - p[1]), np[2] + (np[2] - p[2])>>
  IN  IF IsPresent(ls, np[2], np[1]) THEN np
      ELSE IF IsPresent(ls, far[2], far[1]) THEN far
      ELSE p

\* The three nested if-lets that end the handler: the player moves to the
\* candidate only if leds holds Some(led) there.
Accept(ls, p, np) == IF IsPresent(ls, np[2], np[1]) THEN np ELSE p

\* A loop that delivers a key between MainEventsCleared and the redraw it
\* requested.
KeyboardInputAnytime(keycode, maxKeys, maxShots) ==
  /\ keys < maxKeys
  /\ keycode = "Space" => shots < maxShots
  /\ keys' = keys + 1
  /\ shots' = IF keycode = "Space" THEN shots + 1 ELSE shots
  /\ new_player' = Candidate(player, keycode)
  /\ entities' = IF keycode = "Space" THEN Append(entities, Shot(player))
                                      ELSE entities
  /\ player' = Accept(leds, player, new_player')
  /\ writes' = <<>>
  /\ UNCHANGED <<leds, max_col, explosions, last_spawn_time, last_update_time,
                 pc, failed, hw>>

\* The handler of a pressed key. Any other keycode falls to `_ => ()` and
\* then assigns player = player: it changes nothing and is left out, as are
\* Resized (the debug pixmap only) and CloseRequested (the loop ends).
KeyboardInput(keycode, maxKeys, maxShots) ==
  /\ pc = "events"
  /\ keys < maxKeys
  /\ keycode = "Space" => shots < maxShots
  /\ keys' = keys + 1
  /\ shots' = IF keycode = "Space" THEN shots + 1 ELSE shots
  /\ new_player' = Candidate(player, keycode)
  /\ entities' = IF keycode = "Space" THEN Append(entities, Shot(player))
                                      ELSE entities
  /\ player' = Accept(leds, player, new_player')
  /\ writes' = <<>>
  /\ UNCHANGED <<leds, max_col, explosions, last_spawn_time, last_update_time,
                 pc, failed, hw>>

Up(maxKeys)              == KeyboardInput("Up", maxKeys, 0)
Down(maxKeys)            == KeyboardInput("Down", maxKeys, 0)
Left(maxKeys)            == KeyboardInput("Left", maxKeys, 0)
Right(maxKeys)           == KeyboardInput("Right", maxKeys, 0)
Space(maxKeys, maxShots) == KeyboardInput("Space", maxKeys, maxShots)

\* -------------------------------------------------------- MainEventsCleared
TwoSeconds == 20

AgeAll(expl, dt) ==
  [k \in 1..Len(expl) |-> <<expl[k][1], expl[k][2], expl[k][3] + dt>>]

\* A retain that keeps the explosion whose age has just reached 2.0.
YoungOrDue(explosion) == explosion[3] <= TwoSeconds

Young(explosion) == explosion[3] < TwoSeconds

UpdateAll(ents, dt) == [k \in 1..Len(ents) |-> update(ents[k], dt)]

\* The inner loop over j for one i; a is entities[i].pixel_position() as read
\* before the loop. st = [entities, explosions].
RECURSIVE CollideInner(_, _, _, _)
CollideInner(st, i, a, j) ==
  IF j > Len(st.entities) THEN st
  ELSE LET b == pixel_position(st.entities[j])
       IN  IF a = b
             THEN CollideInner(
                    [entities   |-> [st.entities EXCEPT ![i].x = -1 * Unit,
                                                        ![j].x = -1 * Unit],
                     explosions |-> Append(st.explosions, <<a[1], a[2], 0>>)],
                    i, a, j + 1)
             ELSE CollideInner(st, i, a, j + 1)

RECURSIVE CollideOuter(_, _)
CollideOuter(st, i) ==
  IF i > Len(st.entities) THEN st
  ELSE CollideOuter(
         CollideInner(st, i, pixel_position(st.entities[i]), i + 1), i + 1)

Collide(ents, expl) == CollideOuter([entities |-> ents, explosions |-> expl], 1)

\* A retain whose lower comparison is off by one: the column of the x = -1.0
\* mark passes.
OnGridFromMark(entity, maxc) ==
  LET pixel == pixel_position(entity)
  IN  pixel[1] >= -1 /\ pixel[1] < maxc

\* A retain whose upper comparison is off by one.
OnGridInclusive(entity, maxc) ==
  LET pixel == pixel_position(entity)
  IN  pixel[1] >= 0 /\ pixel[1] <= maxc

OnGrid(entity, maxc) ==
  LET pixel == pixel_position(entity)
  IN  pixel[1] >= 0 /\ pixel[1] < maxc

\* The entity the spawn pushes; n is rand::random::<usize>().
Hostile(maxc, nrows, n) ==
  [x |-> (maxc - 1) * Unit, y |-> ((n % (nrows - 2)) + 1) * Unit,
   dx |-> -2, dy |-> 0, r |-> 0, g |-> 0, b |-> 255]

SpawnDue(elapsed) == elapsed > TwoSeconds

\* The whole handler on (entities, explosions), for the clock reading time of
\* line 235, the clock reading now inside elapsed() at line 266 and the random
\* number n: [entities, explosions, last_spawn_time].
Simulate(ents, expl, maxc, nrows, spawn_time, update_time, time, now, n) ==
  LET dt    == time - update_time
      aged  == SelectSeq(AgeAll(expl, dt), Young)
      hit   == Collide(UpdateAll(ents, dt), aged)
      kept  == SelectSeq(hit.entities, LAMBDA e : OnGrid(e, maxc))
      spawn == SpawnDue(now - spawn_time)
  IN  [entities        |-> IF spawn THEN Append(kept, Hostile(maxc, nrows, n))
                                    ELSE kept,
       explosions      |-> hit.explosions,
       last_spawn_time |-> IF spawn THEN time ELSE spawn_time]

MainEventsCleared(maxTime) ==
  /\ pc = "events"
  /\ \E d \in DtSet, late \in LateSet, n \in 0..3 :
       LET time == last_update_time + d
           sim  == Simulate(entities, explosions, max_col, Len(leds),
                            last_spawn_time, last_update_time, time,
                            time + late, n)
       IN  /\ time <= maxTime
           /\ last_update_time' = time
           /\ entities' = sim.entities
           /\ explosions' = sim.explosions
           /\ last_spawn_time' = sim.last_spawn_time
  /\ pc' = "redraw"
  /\ new_player' = player
  /\ writes' = <<>>
  /\ UNCHANGED <<leds, max_col, player, keys, shots, failed, hw>>

\* ---------------------------------------------------------- RedrawRequested
\* A first pass that lights the banner and leaves the other LEDs as they are.
BackgroundKeep(ls) ==
  [r \in 1..Len(ls) |->
     [c \in 1..Len(ls[r]) |->
        IF ls[r][c] = None THEN None
        ELSE IF banner[r][c] = " " THEN ls[r][c]
                                   ELSE Some(set_color(ls[r][c][1], White))]]

\* The first pass: every LED to black or white by the banner.
Background(ls) ==
  [r \in 1..Len(ls) |->
     [c \in 1..Len(ls[r]) |->
        IF ls[r][c] = None THEN None
        ELSE IF banner[r][c] = " " THEN Some(set_color(ls[r][c][1], Black))
                                   ELSE Some(set_color(ls[r][c][1], White))]]

RECURSIVE DrawEntities(_, _, _)
DrawEntities(ls, ents, k) ==
  IF k > Len(ents) THEN ls
  ELSE LET pixel == pixel_position(ents[k])
       IN  DrawEntities(
             Paint(ls, pixel[2], pixel[1], <<ents[k].r, ents[k].g, ents[k].b>>),
             ents, k + 1)

pattern(age) ==
  IF age < 1 THEN      <<<<" ", "Y", " ">>, <<"Y", "O", "Y">>, <<" ", "Y", " ">>>>
  ELSE IF age < 2 THEN <<<<"Y", "O", "Y">>, <<"O", "R", "O">>, <<"Y", "O", "Y">>>>
  ELSE IF age < 3 THEN <<<<"O", "R", "O">>, <<"R", " ", "R">>, <<"O", "R", "O">>>>
  ELSE IF age < 4 THEN <<<<"R", " ", "R">>, <<" ", " ", " ">>, <<"R", " ", "R">>>>
  ELSE                 <<<<" ", " ", " ">>, <<" ", " ", " ">>, <<" ", " ", " ">>>>

\* The match on one pattern byte, for the LED it lands on.
Stamp(led, ch) ==
  CASE ch = "R" -> set_color(led, Red)
    [] ch = "O" -> set_color(led, Orange)
    [] ch = "Y" -> set_color(led, Yellow)
    [] OTHER    -> led

\* The two loops over row and col in 0..3 for one explosion: the nine
\* positions (explosion.0 + col - 1, explosion.1 + row - 1) are distinct, so
\* the loops stamp each LED of the grid at most once, the LED at grid
\* position (x, y) with pattern[y - explosion.1 + 1][x - explosion.0 + 1].
DrawExplosion(ls, explosion) ==
  [r \in 1..Len(ls) |->
     [c \in 1..Len(ls[r]) |->
        LET row == (r - 1) - explosion[2] + 1
            col == (c - 1) - explosion[1] + 1
        IN  IF ls[r][c] # None /\ row \in 0..2 /\ col \in 0..2
              THEN Some(Stamp(ls[r][c][1], pattern(explosion[3])[row + 1][col + 1]))
              ELSE ls[r][c]]]

RECURSIVE DrawExplosions(_, _, _)
DrawExplosions(ls, expl, k) ==
  IF k > Len(expl) THEN ls
  ELSE DrawExplosions(DrawExplosion(ls, expl[k]), expl, k + 1)

\* A player marker that yields to an overlay: it is drawn only on a cell that
\* still shows its background.
DrawPlayerUnder(ls, p) ==
  IF IsPresent(ls, p[2], p[1]) /\ Get(ls, p[2], p[1])[1].color \in {Black, White}
    THEN Paint(ls, p[2], p[1], Green)
    ELSE ls

DrawPlayer(ls, p) == Paint(ls, p[2], p[1], Green)

\* The frame with the entity pass after the explosion pass.
RenderEntitiesLast(ls, p, ents, expl) ==
  DrawPlayer(DrawEntities(DrawExplosions(Background(ls), expl, 1), ents, 1), p)

\* Lines 287-370: the desired colors of one frame.
Render(ls, p, ents, expl) ==
  DrawPlayer(DrawExplosions(DrawEntities(Background(ls), ents, 1), expl, 1), p)

\* Lines 372-393: led.sync(&mut ec) on every Some(led), rows in order and
\* columns in order within a row; bad is the set of LED indices whose
\* led_set_color returns Err in this pass. Each LED is visited once and sync
\* reads and writes that LED alone, so the grid after the pass is sync applied
\* position by position, and the calls are those of the positions in visiting
\* order.
SyncAt(opt, bad) == sync(opt[1], opt[1].i \notin bad)

RECURSIVE RowCalls(_, _, _)
RowCalls(leds_row, c, bad) ==
  IF c > Len(leds_row) THEN <<>>
  ELSE (IF leds_row[c] = None THEN <<>> ELSE SyncAt(leds_row[c], bad).call)
       \o RowCalls(leds_row, c + 1, bad)

RECURSIVE GridCalls(_, _, _)
GridCalls(ls, r, bad) ==
  IF r > Len(ls) THEN <<>>
  ELSE RowCalls(ls[r], 1, bad) \o GridCalls(ls, r + 1, bad)

\* A pass that returns at the first Err: the LEDs after it are not visited.
SyncAllAbort(ls, bad) ==
  LET calls == GridCalls(ls, 1, bad)
      errs  == {k \in 1..Len(calls) : ~calls[k].ok}
      cut   == IF errs = {} THEN Len(calls)
               ELSE CHOOSE k \in errs : \A j \in errs : k <= j
      done  == {calls[k].i : k \in 1..cut}
  IN  [leds   |-> [r \in 1..Len(ls) |->
                     [c \in 1..Len(ls[r]) |->
                        IF ls[r][c] = None THEN None
                        ELSE IF ls[r][c][1].i \in done
                          THEN Some(SyncAt(ls[r][c], bad).led)
                          ELSE ls[r][c]]],
       writes |-> SubSeq(calls, 1, cut)]

SyncAll(ls, bad) ==
  [leds   |-> [r \in 1..Len(ls) |->
                 [c \in 1..Len(ls[r]) |->
                    IF ls[r][c] = None THEN None
                    ELSE Some(SyncAt(ls[r][c], bad).led)]],
   writes |-> GridCalls(ls, 1, bad)]

\* What the hardware shows after a list of calls: an Ok call sets its LED.
Accepted(h, calls) ==
  [i \in DOMAIN h |->
     LET oks == {k \in 1..Len(calls) : calls[k].i = i /\ calls[k].ok}
     IN  IF oks = {} THEN h[i]
         ELSE Some(calls[CHOOSE k \in oks : \A j \in oks : j <= k].color)]

RedrawRequested(flaky) ==
  /\ pc = "redraw"
  /\ \E bad \in SUBSET flaky :
       \E frame \in {Render(leds, player, entities, explosions)} :
         \E done \in {SyncAll(frame, bad)} :
           /\ leds' = done.leds
           /\ writes' = done.writes
           /\ failed' = {done.writes[k].i :
                           k \in {j \in 1..Len(done.writes) : ~done.writes[j].ok}}
           /\ hw' = Accepted(hw, done.writes)
  /\ pc' = "events"
  /\ UNCHANGED <<max_col, player, entities, explosions, last_spawn_time,
                 last_update_time, new_player, keys, shots>>

\* The event loop under bounds: the LEDs of flaky are those whose
\* led_set_color may return Err.
Run(maxKeys, maxShots, maxTime, flaky) ==
  \/ Up(maxKeys)
  \/ Down(maxKeys)
  \/ Left(maxKeys)
  \/ Right(maxKeys)
  \/ Space(maxKeys, maxShots)
  \/ MainEventsCleared(maxTime)
  \/ RedrawRequested(flaky)

Next == Run(MaxKeys, MaxShots, MaxTime, {})

Spec == Init /\ [][Next]_vars

NextSync == Run(SyncKeys, SyncShots, SyncTime, FlakyLeds)

SpecSync == Init /\ [][NextSync]_vars

NextMove == Run(MoveKeys, MoveShots, MoveTime, {})

SpecMove == Init /\ [][NextMove]_vars

NextShots == Run(ShotKeys, ShotShots, ShotTime, {})

SpecShots == Init /\ [][NextShots]_vars

NextMark == Run(MarkKeys, MarkShots, MarkTime, {})

SpecMark == Init /\ [][NextMark]_vars

NextEdge == Run(EdgeKeys, EdgeShots, EdgeTime, {})

SpecEdge == Init /\ [][NextEdge]_vars

NextFade == Run(FadeKeys, FadeShots, FadeTime, {})

\* control_flow.set_poll() keeps the loop turning: MainEventsCleared is
\* delivered again and again, and the redraw it requests is delivered.
SpecFade ==
  /\ Init
  /\ [][NextFade]_vars
  /\ WF_vars(MainEventsCleared(FadeTime))
  /\ WF_vars(RedrawRequested({}))

InitTable == \E table \in Tables : InitWith(table)

NextTable == Run(TableKeys, TableShots, TableTime, {})

SpecTable == InitTable /\ [][NextTable]_vars

NextSpawn == Run(SpawnKeys, SpawnShots, SpawnTime, {})

SpecSpawn == Init /\ [][NextSpawn]_vars

\* ======================================================================
\* Properties
\* ======================================================================

\* Steps of the three kinds of handler.
KeyStep  == keys' = keys + 1
TickStep == pc = "events" /\ pc' = "redraw"
SyncStep == pc = "redraw" /\ pc' = "events"

\* The grid positions <<row, col>> that hold an LED, by the layout table.
PresentCells ==
  {rc \in (0..(Len(indices) - 1)) \X (0..14) :
     rc[2] < Len(indices[rc[1] + 1]) /\ indices[rc[1] + 1][rc[2] + 1] # ni}

LedAt(ls, rc) == ls[rc[1] + 1][rc[2] + 1][1]

\* The calls of a list that address LED index i.
CallsTo(calls, i) == {k \in 1..Len(calls) : calls[k].i = i}

\* ----------------------------------------------------------------------
\* C1. In every sync pass each present cell gets exactly one led_set_color
\* call, carrying its physical index and its desired color, if its desired
\* color differs from its sync_color as the pass finds them, and no call if
\* they are equal; no call addresses anything but a present cell.
C1_WriteIffDiffers ==
  [][SyncStep =>
       /\ \A rc \in PresentCells :
            LET before == LedAt(leds, rc)
                after  == LedAt(leds', rc)
                mine   == CallsTo(writes', before.i)
            IN  /\ Cardinality(mine) =
                     (IF before.sync_color # Some(after.color) THEN 1 ELSE 0)
                /\ \A k \in mine : writes'[k].color = after.color
       /\ \A k \in 1..Len(writes') :
            \E rc \in PresentCells : LedAt(leds, rc).i = writes'[k].i]_vars

\* A pass has just written some present cells and skipped others.
C1_Witness ==
  /\ pc = "events"
  /\ last_update_time >= 2
  /\ Len(writes) = 2

\* ----------------------------------------------------------------------
\* C2. For every present cell sync_color is None until the first successful
\* hardware write for the cell and afterwards the color of the most recent
\* successful write: it is what the hardware last accepted for that LED.
C2_ConfirmedIsAccepted ==
  \A rc \in PresentCells : LedAt(leds, rc).sync_color = hw[LedAt(leds, rc).i]

\* ----------------------------------------------------------------------
\* C3. If the write for a cell failed in the last sync pass and the next
\* render gives the cell the same desired color, the next sync pass issues
\* the write for that cell again.
C3_FailedWriteRetried ==
  [][SyncStep =>
       \A rc \in PresentCells :
         (/\ LedAt(leds, rc).i \in failed
          /\ LedAt(leds', rc).color = LedAt(leds, rc).color)
         => CallsTo(writes', LedAt(leds, rc).i) # {}]_vars

\* ----------------------------------------------------------------------
\* C4. A failed hardware write aborts neither the pass nor the loop: in a
\* pass with a failed write every present cell whose desired color differs
\* from its sync_color still gets its call, the ones visited after the
\* failure included, and the loop goes on to deliver events.
C4_FailureDoesNotAbort ==
  [][(SyncStep /\ failed' # {}) =>
       /\ \A rc \in PresentCells :
            LedAt(leds, rc).sync_color # Some(LedAt(leds', rc).color)
              => CallsTo(writes', LedAt(leds, rc).i) # {}
       /\ pc' = "events"]_vars

\* A pass in which a call failed and a later call was made and accepted.
C4_Witness ==
  /\ pc = "events"
  /\ failed # {}
  /\ \E j, k \in 1..Len(writes) : j < k /\ ~writes[j].ok /\ writes[k].ok

\* ----------------------------------------------------------------------
\* C5. From the initial state and with every write succeeding, N >= 1
\* passes with identical desired colors issue exactly one write per present
\* cell in total, in the first pass: the first pass (every sync_color None)
\* writes every present cell once, and a later pass, coming when the
\* hardware has accepted the color of every LED and rendering the frame the
\* LEDs already show, writes nothing.
NeverSynced == \A rc \in PresentCells : LedAt(leds, rc).sync_color = None

HardwareShowsFrame ==
  \A rc \in PresentCells : hw[LedAt(leds, rc).i] = Some(LedAt(leds, rc).color)

C5_OneWritePerCell ==
  [][SyncStep =>
       /\ NeverSynced =>
            \A rc \in PresentCells :
              Cardinality(CallsTo(writes', LedAt(leds, rc).i)) = 1
       /\ (/\ HardwareShowsFrame
           /\ \A rc \in PresentCells :
                LedAt(leds', rc).color = LedAt(leds, rc).color)
          => writes' = <<>>]_vars

\* The second of two passes with the same frame, all writes accepted: it
\* wrote nothing.
C5_Witness ==
  /\ pc = "events"
  /\ keys = 0
  /\ last_update_time >= 2
  /\ writes = <<>>
  /\ \A rc \in PresentCells :
       /\ LedAt(leds, rc).sync_color = Some(LedAt(leds, rc).color)
       /\ hw[LedAt(leds, rc).i] = Some(LedAt(leds, rc).color)

\* ----------------------------------------------------------------------
\* What one tick is given and what it makes, read off a TickStep.
TickDt == last_update_time' - last_update_time

\* The entity list after the position update, before the collision loop.
Moved == UpdateAll(entities, TickDt)

\* The pairs of entities that share a pixel position after the update.
CollidingPairs ==
  {ij \in (1..Len(Moved)) \X (1..Len(Moved)) :
     /\ ij[1] < ij[2]
     /\ pixel_position(Moved[ij[1]]) = pixel_position(Moved[ij[2]])}

Colliders == {ij[1] : ij \in CollidingPairs} \cup {ij[2] : ij \in CollidingPairs}

\* The explosions that outlive the aging of this tick: a prefix of explosions'.
Survived == Len(SelectSeq(AgeAll(explosions, TickDt), Young))

\* The places in explosions' of the explosions this tick created.
Created == (Survived + 1)..Len(explosions')

\* The entities of the end of the tick that the tick did not spawn.
Spawned == last_spawn_time' # last_spawn_time

Carried == IF Spawned THEN Len(entities') - 1 ELSE Len(entities')

\* ----------------------------------------------------------------------
\* C6. In one tick exactly one Explosion is created per pair of entities
\* that share a pixel position after the position update, none for any other
\* pair, and no entity of a colliding pair is in the entity list at the end
\* of the tick.
C6_OneExplosionPerPair ==
  [][TickStep =>
       /\ Cardinality(Created) = Cardinality(CollidingPairs)
       /\ Carried <= Len(Moved) - Cardinality(Colliders)
       /\ \A i \in Colliders : \A k \in 1..Carried : entities'[k] # Moved[i]]_vars

\* ----------------------------------------------------------------------
\* C7. Every Explosion created in a tick has age 0 and is centered at a
\* pixel position that two entities shared after that tick's position
\* update, in a collision of three or more entities too.
C7_ExplosionAtSharedCell ==
  [][TickStep =>
       \A k \in Created :
         /\ explosions'[k][3] = 0
         /\ \E ij \in CollidingPairs :
              pixel_position(Moved[ij[1]]) = <<explosions'[k][1], explosions'[k][2]>>]_vars

\* ----------------------------------------------------------------------
\* C8. The player position is always an in-bounds cell that holds an LED, by
\* the layout table.
C8_PlayerOnPresentCell == <<player[2], player[1]>> \in PresentCells

\* Down was pressed above the absent cell (5, 5) and the player stayed.
C8_Witness == player = <<5, 4>> /\ new_player = <<5, 5>>

\* ----------------------------------------------------------------------
\* C9. A directional input moves the player to the adjacent cell in the
\* pressed direction (new_player) if that cell is in bounds and holds an
\* LED, and leaves the player where it was otherwise; the player is never
\* moved by more than one cell.
Distance(p, q) ==
  (IF p[1] > q[1] THEN p[1] - q[1] ELSE q[1] - p[1])
  + (IF p[2] > q[2] THEN p[2] - q[2] ELSE q[2] - p[2])

C9_OneStepOrStay ==
  [][(KeyStep /\ shots' = shots) =>
       /\ Distance(player, new_player') <= 1
       /\ player' = IF <<new_player'[2], new_player'[1]>> \in PresentCells
                      THEN new_player' ELSE player]_vars

\* Right was pressed at (4, 5): column 5 of that row is absent, column 6 is
\* present, and the player stayed.
C9_Witness ==
  /\ player = <<4, 5>>
  /\ new_player = <<5, 5>>
  /\ <<5, 6>> \in PresentCells

\* ----------------------------------------------------------------------
\* The layers of the frame at grid position <<row, col>>, for the entities
\* and explosions a render pass is given.
Lit(rc) == banner[rc[1] + 1][rc[2] + 1] # " "

\* The entities whose pixel position is the cell.
EntitiesOn(rc) ==
  {k \in 1..Len(entities) : pixel_position(entities[k]) = <<rc[2], rc[1]>>}

\* The pattern byte explosion k holds for the cell, " " when the cell is
\* outside its 3x3 neighbourhood or the explosion is 0.4 s old or older.
ByteOf(k, rc) ==
  LET row == rc[1] - explosions[k][2] + 1
      col == rc[2] - explosions[k][1] + 1
  IN  IF row \in 0..2 /\ col \in 0..2 /\ explosions[k][3] < 4
        THEN pattern(explosions[k][3])[row + 1][col + 1]
        ELSE " "

ExplosionsOn(rc) == {k \in 1..Len(explosions) : ByteOf(k, rc) # " "}

Last(S) == CHOOSE k \in S : \A j \in S : j <= k

Layered(rc) ==
  IF ExplosionsOn(rc) # {}
    THEN LET ch == ByteOf(Last(ExplosionsOn(rc)), rc)
         IN  IF ch = "R" THEN Red ELSE IF ch = "O" THEN Orange ELSE Yellow
  ELSE IF EntitiesOn(rc) # {}
    THEN LET e == entities[Last(EntitiesOn(rc))] IN <<e.r, e.g, e.b>>
  ELSE IF Lit(rc) THEN White ELSE Black

\* C10 as stated. After every render pass the desired color of each present
\* cell is the composition of background, then entities, then explosions,
\* the later layer and the later explosion overwriting the earlier.
C10_LayeredEverywhere ==
  [][SyncStep =>
       \A rc \in PresentCells : LedAt(leds', rc).color = Layered(rc)]_vars

\* C10, amended. After every render pass the desired color of each present
\* cell other than the player's is the composition of background, then
\* entities, then explosions, the later layer and the later explosion
\* overwriting the earlier; the player's cell holds the player color.
C10_LayeredButPlayer ==
  [][SyncStep =>
       \A rc \in PresentCells :
         LedAt(leds', rc).color =
           IF rc = <<player[2], player[1]>> THEN Green ELSE Layered(rc)]_vars

\* A frame just drawn in which an explosion has overwritten the color of an
\* entity on a cell of its neighbourhood.
C10_Witness ==
  /\ pc = "events"
  /\ writes # <<>>
  /\ \E k \in 1..Len(entities) :
       LET rc == <<pixel_position(entities[k])[2], pixel_position(entities[k])[1]>>
       IN  /\ rc \in PresentCells
           /\ rc # <<player[2], player[1]>>
           /\ ExplosionsOn(rc) # {}
           /\ LedAt(leds, rc).color \in {Orange, Yellow}

\* ----------------------------------------------------------------------
\* C11. After every render pass the desired color of the player's cell is
\* the player color green (0x00, 0xFF, 0x00), whatever entity or explosion
\* covers the cell and whatever the banner holds there.
C11_PlayerCellGreen ==
  [][SyncStep => LedAt(leds', <<player[2], player[1]>>).color = Green]_vars

\* A frame just drawn with the player on a lit banner cell that a bullet and
\* an explosion pattern cover as well.
C11_Witness ==
  LET rc == <<player[2], player[1]>>
  IN  /\ pc = "events"
      /\ writes # <<>>
      /\ Lit(rc)
      /\ EntitiesOn(rc) # {}
      /\ ExplosionsOn(rc) # {}
      /\ LedAt(leds, rc).color = Green

\* ----------------------------------------------------------------------
\* The desired colors of a grid, position by position.
Colors(ls) ==
  [r \in 1..Len(ls) |->
     [c \in 1..Len(ls[r]) |->
        IF ls[r][c] = None THEN None ELSE Some(ls[r][c][1].color)]]

\* C12. The desired colors a render pass leaves depend on the player
\* position, the entity list and the explosion list alone: they are the
\* colors the same pass leaves on the grid as construction made it, whatever
\* colors the LEDs held before the pass.
C12_RenderFromScratch ==
  [][SyncStep =>
       Colors(leds') = Colors(Render(BuildLeds, player, entities, explosions))]_vars

\* A pass that found an overlay of the frame before on a cell and put the
\* cell back to its background.
C12_Witness ==
  /\ pc = "events"
  /\ last_update_time >= 2
  /\ \E k \in 1..Len(writes) : writes[k].color \in {Black, White}

\* ----------------------------------------------------------------------
\* C13. At the end of a tick the entities the tick did not spawn are, in
\* order, the entities that after the position update share their pixel
\* position with no other entity and have a pixel column c with
\* 0 <= c < max_col: column max_col or more, or below 0, is removed, column
\* max_col - 1 without a collision is kept.
Alone(e) ==
  Cardinality({k \in 1..Len(Moved) :
                 pixel_position(Moved[k]) = pixel_position(e)}) = 1

InColumns(e) == pixel_position(e)[1] >= 0 /\ pixel_position(e)[1] < max_col

Born(b) == \E k \in 1..Len(explosions) : last_update_time - explosions[k][3] = b

C14_AgedThenDropped ==
  /\ [][TickStep =>
          LET keep == SelectSeq(AgeAll(explosions, TickDt),
                                LAMBDA x : x[3] < TwoSeconds)
          IN  /\ Len(explosions') >= Len(keep)
              /\ SubSeq(explosions', 1, Len(keep)) = keep
              /\ \A k \in (Len(keep) + 1)..Len(explosions') :
                   explosions'[k][3] = 0]_vars
  /\ \A b \in 1..(FadeTime - TwoSeconds) : Born(b) ~> ~Born(b)

\* A tick has just kept an explosion of age 1.9.
C14_Witness ==
  /\ pc = "redraw"
  /\ \E k \in 1..Len(explosions) : explosions[k][3] = TwoSeconds - 1

\* ----------------------------------------------------------------------
\* C15. A tick spawns iff the time since the last spawn, at the clock reading
\* of the tick, exceeds 2.0; it then appends exactly one entity, at column
\* max_col - 1, in an interior row, with dx = -2.0, dy = 0 and the hostile
\* color, and sets the spawn timer to the tick's clock reading; no tick
\* appends more than that one entity, and the timer values of two
\* consecutive spawns are more than 2.0 apart.
IsHostile(e) ==
  /\ e.x = (max_col - 1) * Unit
  /\ \E row \in 1..(Len(leds) - 2) : e.y = row * Unit
  /\ e.dx = -2 /\ e.dy = 0
  /\ <<e.r, e.g, e.b>> = Blue

C15_SpawnEveryTwoSeconds ==
  [][TickStep =>
       LET kept == SelectSeq(Moved, LAMBDA e : Alone(e) /\ InColumns(e))
           more == Len(entities') - Len(kept)
       IN  /\ more \in {0, 1}
           /\ more = 1 <=> last_update_time' - last_spawn_time > TwoSeconds
           /\ more = 1 =>
                /\ IsHostile(entities'[Len(entities')])
                /\ last_spawn_time' = last_update_time'
                /\ last_spawn_time' - last_spawn_time > TwoSeconds
           /\ more = 0 => last_spawn_time' = last_spawn_time]_vars

\* ----------------------------------------------------------------------
\* C16. Every led_set_color call carries a physical index that is a present
\* entry of the layout table, and the grid holds at every position what the
\* table gives it, no LED where the entry is ni and otherwise the LED of that
\* index, for good; in particular no call carries a negative or out-of-range
\* index when an entity has left the grid.
PresentIndices ==
  {indices[r][c] : r \in 1..Len(indices), c \in 1..15} \ {ni}

C16_WritesOnLayout ==
  /\ \A k \in 1..Len(writes) : writes[k].i \in PresentIndices
  /\ Len(leds) = Len(indices)
  /\ \A r \in 1..Len(indices) :
       /\ Len(leds[r]) = Len(indices[r])
       /\ \A c \in 1..Len(indices[r]) :
            IF indices[r][c] = ni THEN leds[r][c] = None
            ELSE leds[r][c] # None /\ leds[r][c][1].i = indices[r][c]

\* The only bullet has flown past the last column, and the one call of the
\* pass after that tick has put the cell of the last column, which the
\* bullet left, back to its background.
C16_Witness ==
  /\ pc = "events"
  /\ shots = 1
  /\ entities = <<>>
  /\ explosions = <<>>
  /\ Len(writes) = 1
  /\ writes[1].i \in {indices[r][max_col] : r \in 1..3}
  /\ writes[1].color \in {Black, White}

Positions(ls) ==
  {rc \in (1..Len(ls)) \X (1..15) : rc[2] <= Len(ls[rc[1]]) /\ ls[rc[1]][rc[2]] # None}

Duplicated(ls) ==
  Cardinality({ls[rc[1]][rc[2]][1].i : rc \in Positions(ls)})
    < Cardinality(Positions(ls))

C19_ExplosionsOnGrid ==
  \A k \in 1..Len(explosions) :
    /\ explosions[k][1] >= 0 /\ explosions[k][1] < max_col
    /\ explosions[k][2] >= 0 /\ explosions[k][2] < Len(leds)

\* ----------------------------------------------------------------------
\* C20. When a render pass starts every entity of the list has its pixel
\* column in [0, max_col) and its pixel row in [0, row count).
C20_EntitiesOnGrid ==
  pc = "redraw" =>
    \A k \in 1..Len(entities) :
      LET pixel == pixel_position(entities[k])
      IN  /\ pixel[1] >= 0 /\ pixel[1] < max_col
          /\ pixel[2] >= 0 /\ pixel[2] < Len(leds)

\* A render pass is about to start on a list that holds a spawned entity
\* alone, both bullets fired having been consumed by their collision, whose
\* explosion is still in its list.
C20_Witness ==
  /\ pc = "redraw"
  /\ shots = 2
  /\ explosions # <<>>
  /\ Len(entities) = 1
  /\ entities[1].dx = -2

\* ----------------------------------------------------------------------
\* C21. A Fire input appends exactly one entity, located at the player's
\* cell and with dx = +8.0 and dy = 0, and leaves the player position, the
\* entities already in the list, the explosions and the LED colors as they
\* were; a directional input changes nothing but the player position.
C21_KeyFrame ==
  [][KeyStep =>
       /\ UNCHANGED <<explosions, leds, max_col, last_spawn_time,
                      last_update_time, hw>>
       /\ IF shots' # shots
            THEN /\ Len(entities') = Len(entities) + 1
                 /\ SubSeq(entities', 1, Len(entities)) = entities
                 /\ LET fired == entities'[Len(entities')]
                    IN  /\ fired.x = player[1] * Unit
                        /\ fired.y = player[2] * Unit
                        /\ pixel_position(fired) = player
                        /\ fired.dx = 8 /\ fired.dy = 0
                 /\ player' = player
            ELSE entities' = entities]_vars

\* Space has just been handled, after a frame was drawn and the player has
\* moved, with an earlier bullet in flight: the list holds that bullet, moved
\* on, and the new one on the player's cell.
C21_Witness ==
  /\ pc = "events"
  /\ writes = <<>>
  /\ last_update_time >= 1
  /\ player # <<2, 2>>
  /\ Len(entities) = 2
  /\ pixel_position(entities[1]) # player
  /\ entities[2].x = player[1] * Unit /\ entities[2].y = player[2] * Unit
  /\ \E rc \in PresentCells : LedAt(leds, rc).color = Red

====
